---- MODULE Spec2Model ----
(***************************************************************************)
(* Model of vnt/src/channel/udp_channel.rs: the two mio reactors that      *)
(* receive UDP datagrams (main_udp_listen0, sub_udp_listen0), the control  *)
(* channel that hands socket lists to the sub reactor, and the stop        *)
(* cascade through StopManager.                                            *)
(*                                                                         *)
(* StopManager, AcceptNotify, AcceptSocketSender and Context live in other *)
(* files of the crate; they are modelled from their description in the     *)
(* specification and from the way udp_channel.rs calls them.               *)
(***************************************************************************)
EXTENDS Integers, Sequences, FiniteSets, TLC

\* ------------------------------------------------------------------ bounds
MaxMain == 2        \* largest number of main sockets in Context
MaxList == 2        \* longest socket list of one Some(list)
MaxInputs == 2      \* inputs of one run: control messages sent plus receive results queued
MaxProducers == 2   \* producers between their try_send and their notify
MaxExtra == MaxList + 1   \* extra sockets the producers create in one run

\* ------------------------------------------------------- program constants
NOTIFY == 0              \* const NOTIFY: Token = Token(0)
ChannelCap == 64         \* sync_channel(64)
SubEventsCap == 1024     \* Events::with_capacity(1024)

VARIABLES
    budget,         \* inputs the environment feeds in this run
    mainCount,      \* context.main_udp_socket.len() = context.channel_num()
    startPc,        \* position of the thread running udp_listen
    listeners,      \* StopManager: names registered with add_listener
    stopped,        \* StopManager: stop_all / stop has completed
    ran,            \* StopManager: names whose callback has been run
    mainPc,         \* position of thread "mainUdp"
    mainExit,       \* why main_udp_listen0 returned: "none", "stop", "error"
    udps,           \* main_udp_listen0: sockets registered in its poll, by position
    mainReady,      \* main poll: sources (WAKER or a socket) with a pending readiness edge
    mainEvents,     \* main_udp_listen0: events of the current batch still to handle
    mainIndex,      \* main_udp_listen0: index of the socket being drained
    subPc,          \* position of thread "subUdp"
    subExit,        \* why sub_udp_listen0 returned: "none", "stop", "error" (poll), "register"
    subReg,         \* sub poll registry: set of <<socket, token>>
    subReady,       \* sub poll: sources (WAKER or a socket) with a pending readiness edge
    subEvents,      \* sub_udp_listen0: events of the current batch still to handle
    subToken,       \* sub_udp_listen0: token of the socket being drained
    read_map,       \* sub_udp_listen0: HashMap<Token, UdpSocket>
    is_stop,        \* AcceptNotify: stop intent
    is_add_socket,  \* AcceptNotify: update intent
    chan,           \* the control channel (udp_sender -> accept_receiver)
    receiverAlive,  \* accept_receiver has not been dropped
    sent,           \* number of sends attempted by producers
    nextSock,       \* next extra socket the producer will create
    pendingNotify,  \* producers that have enqueued and not yet notified
    closed,         \* extra sockets that have been dropped (closed)
    sockq,          \* per socket: receive results queued by the OS
    arrivals,       \* number of receive results queued so far
    handled,        \* per reactor: its calls of recv_handler.handle, in order
    applied,        \* control messages applied by the sub reactor, in order
    lastDrain,      \* per reactor: datagrams handed over by its latest finished drain loop
    deregErrors     \* sockets whose deregister failed and was logged

vars == <<budget, mainCount, startPc, listeners, stopped, ran,
          mainPc, mainExit, udps, mainReady, mainEvents, mainIndex,
          subPc, subExit, subReg, subReady, subEvents, subToken, read_map,
          is_stop, is_add_socket, chan, receiverAlive, sent, nextSock,
          pendingNotify, closed, sockq, arrivals, handled, applied, lastDrain,
          deregErrors>>

stopVars == <<listeners, stopped, ran>>
mainVars == <<mainPc, mainExit, udps, mainReady, mainEvents, mainIndex>>
subVars == <<subPc, subExit, subReg, subReady, subEvents, subToken, read_map>>
notifyVars == <<is_stop, is_add_socket>>
chanVars == <<chan, receiverAlive, sent, nextSock, pendingNotify>>
sockVars == <<closed, sockq, arrivals>>
ghostVars == <<handled, applied, lastDrain, deregErrors>>

\* ----------------------------------------------------------------- helpers
Min(a, b) == IF a < b THEN a ELSE b

Range(s) == {s[i] : i \in 1..Len(s)}

\* all orders in which the events of S can appear in one batch
Perms(S) ==
    {f \in [1..Cardinality(S) -> S] : \A i, j \in 1..Cardinality(S) : i # j => f[i] # f[j]}

\* Poll::poll fills events with at most cap of the ready sources, in any order
Batches(ready, cap) ==
    UNION {Perms(T) : T \in {U \in SUBSET ready : Cardinality(U) = Min(cap, Cardinality(ready))}}

\* ------------------------------------------------------------------ sockets
\* context.main_udp_socket: the socket at position i (0-based) is MainSock(i)
WAKER == 0      \* the Waker registered in a poll, as an event source
MainSock(i) == 101 + i
ExtraSock(n) == 200 + n

main_udp_socket == [i \in 1..mainCount |-> MainSock(i - 1)]
MainSocks == {MainSock(i) : i \in 0..(MaxMain - 1)}
ExtraSocks == {ExtraSock(n) : n \in 1..MaxExtra}
Socks == MainSocks \cup ExtraSocks

\* Context::channel_num(): the number of main sockets
channel_num == mainCount

\* receive results the OS holds for a socket
Datagram(id) == [kind |-> "data", id |-> id, addr |-> 9000 + id]
TransientErr == [kind |-> "err", id |-> 0, addr |-> 0]
PersistentErr == [kind |-> "stuck", id |-> 0, addr |-> 0]

\* RouteKey::new(is_stream, index, addr)
RouteKey(is_stream, index, addr) ==
    [is_stream |-> is_stream, index |-> index, peer_address |-> addr]

\* (mutant) one recv_from per readiness event
RecvLoopOnce(q) ==
    IF q = <<>> THEN [got |-> <<>>, rest |-> <<>>, ended |-> TRUE]
    ELSE IF Head(q).kind = "data" THEN [got |-> <<Head(q)>>, rest |-> Tail(q), ended |-> TRUE]
    ELSE IF Head(q).kind = "err" THEN [got |-> <<>>, rest |-> Tail(q), ended |-> TRUE]
    ELSE [got |-> <<>>, rest |-> q, ended |-> FALSE]

\* the drain loop of a socket event, on a socket whose queue is q:
\*   loop { match recv_from { Ok => handle, Err(WouldBlock) => break, Err(e) => log } }
\* got: the datagrams handed to the handler, in order; rest: what stays queued;
\* ended: the loop reached its break (FALSE: recv_from fails on and on, and the
\* loop goes round with it)
RECURSIVE RecvLoop(_)
RecvLoop(q) ==
    IF q = <<>> THEN [got |-> <<>>, rest |-> <<>>, ended |-> TRUE]
    ELSE IF Head(q).kind = "data"
         THEN LET r == RecvLoop(Tail(q))
              IN [got |-> <<Head(q)>> \o r.got, rest |-> r.rest, ended |-> r.ended]
    ELSE IF Head(q).kind = "err" THEN RecvLoop(Tail(q))
    ELSE [got |-> <<>>, rest |-> q, ended |-> FALSE]

\* the handler calls of one drain: recv_handler.handle(&mut buf[..len], RouteKey::new(false, index, addr), &context)
Handle(reactor, sock, index, gen, got) ==
    [i \in 1..Len(got) |->
        [reactor |-> reactor, sock |-> sock, gen |-> gen, payload |-> got[i].id,
         key |-> RouteKey(FALSE, index, got[i].addr)]]

\* control messages: Option<Vec<UdpSocket>>
NoneMsg == [some |-> FALSE, list |-> <<>>]
SomeMsg(list) == [some |-> TRUE, list |-> list]

\* -------------------------------------------------------------------- Init
InitWith(counts, inputs) ==
    /\ mainCount \in counts
    /\ budget = inputs
    /\ startPc = "main_udp_listen"
    /\ listeners = {}
    /\ stopped = FALSE
    /\ ran = {}
    /\ mainPc = "none"
    /\ mainExit = "none"
    /\ udps = <<>>
    /\ mainReady = {}
    /\ mainEvents = <<>>
    /\ mainIndex = 0
    /\ subPc = "none"
    /\ subExit = "none"
    /\ subReg = {}
    /\ subReady = {}
    /\ subEvents = <<>>
    /\ subToken = 0
    /\ read_map = <<>>
    /\ is_stop = FALSE
    /\ is_add_socket = FALSE
    /\ chan = <<>>
    /\ receiverAlive = FALSE
    /\ sent = 0
    /\ nextSock = 1
    /\ pendingNotify = 0
    /\ closed = {}
    /\ sockq = [s \in Socks |-> <<>>]
    /\ arrivals = 0
    /\ handled = [r \in {"main", "sub"} |-> <<>>]
    /\ applied = <<>>
    /\ lastDrain = [r \in {"main", "sub"} |-> 0]
    /\ deregErrors = {}

\* a node has at least one main socket: one, or MaxMain of them
Init == InitWith({1, MaxMain}, MaxInputs)


\* ------------------------------------------------------------ StopManager
\* the poll of a reactor exists from its creation until the thread function returns
MainPollAlive == mainPc \in {"init", "poll", "events", "recv", "log"}
SubPollAlive == subPc \in {"poll", "events", "drain", "recv", "log"}

\* the callback registered as "main_udp": waker.wake()
MainCallback ==
    mainReady' = IF MainPollAlive THEN mainReady \cup {WAKER} ELSE mainReady

\* the callback registered as "sub_udp_listen": waker.stop(), which records the
\* stop intent and fires the wake primitive
SubCallback ==
    /\ is_stop' = TRUE
    /\ subReady' = IF SubPollAlive THEN subReady \cup {WAKER} ELSE subReady

\* (mutant) the caller's own callback skipped
CallbacksRunButOwn(caller) == listeners \ {caller}

\* the callbacks stop_all invoked by `caller` runs
CallbacksRun(caller) == listeners

\* Worker::stop_all / StopManager::stop: run the registered callbacks, then
\* report stopped.  Registration and invocation are serialised.
StopAll(caller) ==
    /\ stopped' = TRUE
    /\ ran' = ran \cup CallbacksRun(caller)
    /\ UNCHANGED listeners
    /\ IF "main_udp" \in CallbacksRun(caller) THEN MainCallback ELSE UNCHANGED mainReady
    /\ IF "sub_udp_listen" \in CallbacksRun(caller)
          THEN SubCallback
          ELSE UNCHANGED <<is_stop, subReady>>

\* a stop requested by another component of the node
ExternalStop ==
    /\ ~stopped
    /\ StopAll("")
    /\ UNCHANGED <<budget, mainCount, startPc, mainPc, mainExit, udps, mainEvents, mainIndex,
                   subPc, subExit, subReg, subEvents, subToken, read_map,
                   is_add_socket>>
    /\ UNCHANGED <<chanVars, sockVars, ghostVars>>

\* ------------------------------------------------------------- udp_listen
\* main_udp_listen: Poll::new, Waker::new, add_listener("main_udp"), spawn "mainUdp"
StartMain ==
    /\ startPc = "main_udp_listen"
    /\ \/ /\ ~stopped
          /\ listeners' = listeners \cup {"main_udp"}
          /\ mainPc' = "init"
          /\ startPc' = "sub_udp_listen"
       \/ \* Poll::new / Waker::new fail, or add_listener refuses after a stop
          /\ startPc' = "returned_err"
          /\ UNCHANGED <<listeners, mainPc>>
    /\ UNCHANGED <<budget, mainCount, stopped, ran, mainExit, udps, mainReady, mainEvents, mainIndex>>
    /\ UNCHANGED <<subVars, notifyVars, chanVars, sockVars, ghostVars>>

\* sub_udp_listen: sync_channel(64), Poll::new, Waker::new,
\* add_listener("sub_udp_listen"), spawn "subUdp", return the sender
StartSub ==
    /\ startPc = "sub_udp_listen"
    /\ \/ /\ ~stopped
          /\ listeners' = listeners \cup {"sub_udp_listen"}
          /\ subPc' = "poll"
          /\ receiverAlive' = TRUE
          /\ startPc' = "returned_ok"
       \/ /\ startPc' = "returned_err"
          /\ UNCHANGED <<listeners, subPc, receiverAlive>>
    /\ UNCHANGED <<budget, mainCount, stopped, ran, subExit, subReg, subReady, subEvents,
                   subToken, read_map, chan, sent, nextSock, pendingNotify>>
    /\ UNCHANGED <<mainVars, notifyVars, sockVars, ghostVars>>

\* ----------------------------------------------------------- Main Reactor
\* the registration token of the main socket at position index
MainToken(index) == index + 1

\* the RouteKey index of a socket event: Token(index) => index - 1
MainIndexOf(token) == token - 1

\* the token under which the main poll reports an event of source src
MainTokenOf(src) ==
    IF src = WAKER THEN NOTIFY
    ELSE MainToken(CHOOSE i \in 0..(Len(udps) - 1) : udps[i + 1] = src)

\* registration loop of main_udp_listen0: try_clone, set_nonblocking, register
MainInit ==
    /\ mainPc = "init"
    /\ \/ /\ udps' = main_udp_socket
          /\ mainReady' = mainReady \cup
                {MainSock(i) : i \in {j \in 0..(mainCount - 1) : sockq[MainSock(j)] # <<>>}}
          /\ mainPc' = "poll"
          /\ UNCHANGED mainExit
       \/ \* one of the three calls fails for some socket: the error is returned
          /\ mainCount > 0
          /\ mainPc' = "exit"
          /\ mainExit' = "error"
          /\ mainReady' = {}
          /\ UNCHANGED udps
    /\ UNCHANGED <<budget, mainCount, startPc, mainEvents, mainIndex>>
    /\ UNCHANGED <<stopVars, subVars, notifyVars, chanVars, sockVars, ghostVars>>

\* where the main reactor goes when the event in hand is finished
MainNextPc(events) == IF events = <<>> THEN "poll" ELSE "events"

\* poll.poll(&mut events, None) returns Ok, with events of capacity udps.len():
\* it blocks until a source is ready (with capacity 0 it has no room for an event)
MainPoll ==
    /\ mainPc = "poll"
    /\ mainReady # {}
    /\ \E batch \in Batches(mainReady, Len(udps)) :
          /\ mainEvents' = [i \in 1..Len(batch) |-> MainTokenOf(batch[i])]
          /\ mainReady' = mainReady \ Range(batch)
          /\ mainPc' = MainNextPc(batch)
    /\ UNCHANGED <<budget, mainCount, startPc, mainExit, udps, mainIndex>>
    /\ UNCHANGED <<stopVars, subVars, notifyVars, chanVars, sockVars, ghostVars>>

\* poll.poll(&mut events, None)? returns Err: the error leaves main_udp_listen0
MainPollFail ==
    /\ mainPc = "poll"
    /\ mainPc' = "exit"
    /\ mainExit' = "error"
    /\ mainReady' = {}
    /\ mainEvents' = <<>>
    /\ udps' = <<>>
    /\ UNCHANGED <<budget, mainCount, startPc, mainIndex>>
    /\ UNCHANGED <<stopVars, subVars, notifyVars, chanVars, sockVars, ghostVars>>

\* for x in events.iter(): match x.token(), with the drain loop of a socket event
MainEvent ==
    /\ mainPc = "events"
    /\ mainEvents # <<>>
    /\ LET token == Head(mainEvents) IN
       IF token = NOTIFY
       THEN \* NOTIFY => return Ok(())
            /\ mainPc' = "exit"
            /\ mainExit' = "stop"
            /\ mainEvents' = <<>>
            /\ mainReady' = {}
            /\ udps' = <<>>
            /\ UNCHANGED <<mainIndex, sockq, handled, lastDrain>>
       ELSE LET index == MainIndexOf(token)
                s == udps[index + 1]
                r == RecvLoop(sockq[s]) IN
            /\ mainEvents' = Tail(mainEvents)
            /\ sockq' = [sockq EXCEPT ![s] = r.rest]
            /\ handled' = [handled EXCEPT !["main"] = @ \o Handle("main", s, index, 0, r.got)]
            /\ IF r.ended
               THEN /\ mainPc' = MainNextPc(Tail(mainEvents))
                    /\ mainIndex' = 0
                    /\ lastDrain' = [lastDrain EXCEPT !["main"] = Len(r.got)]
               ELSE /\ mainPc' = "recv"
                    /\ mainIndex' = index
                    /\ UNCHANGED lastDrain
            /\ UNCHANGED <<mainExit, mainReady, udps>>
    /\ UNCHANGED <<budget, mainCount, startPc, closed, arrivals, applied, deregErrors>>
    /\ UNCHANGED <<stopVars, subVars, notifyVars, chanVars>>

\* an iteration of the drain loop on a socket whose recv_from keeps failing
MainRecvErr ==
    /\ mainPc = "recv"
    /\ Head(sockq[udps[mainIndex + 1]]).kind = "stuck"
    /\ mainPc' = "log"
    /\ UNCHANGED <<budget, mainCount, startPc, mainExit, udps, mainReady, mainEvents, mainIndex>>
    /\ UNCHANGED <<stopVars, subVars, notifyVars, chanVars, sockVars, ghostVars>>

\* log::error!("main_udp_listen_{}={:?}", index, e); the loop goes on
MainLog ==
    /\ mainPc = "log"
    /\ mainPc' = "recv"
    /\ UNCHANGED <<budget, mainCount, startPc, mainExit, udps, mainReady, mainEvents, mainIndex>>
    /\ UNCHANGED <<stopVars, subVars, notifyVars, chanVars, sockVars, ghostVars>>

\* (mutant) the thread ends without worker.stop_all()
MainFinishNoStopAll ==
    /\ mainPc = "exit"
    /\ mainPc' = "done"
    /\ UNCHANGED <<budget, mainCount, startPc, mainExit, udps, mainReady, mainEvents, mainIndex>>
    /\ UNCHANGED <<stopVars, subVars, notifyVars, chanVars, sockVars, ghostVars>>

\* the thread closure after main_udp_listen0 returned: drop(_waker); worker.stop_all()
MainFinish ==
    /\ mainPc = "exit"
    /\ mainPc' = "done"
    /\ StopAll("main_udp")
    /\ UNCHANGED <<budget, mainCount, startPc, mainExit, udps, mainEvents, mainIndex,
                   subPc, subExit, subReg, subEvents, subToken, read_map,
                   is_add_socket>>
    /\ UNCHANGED <<chanVars, sockVars, ghostVars>>


\* ------------------------------------------------------------ Sub Reactor
\* (mutant) the offset context.channel_num() forgotten
SubTokenNoOffset(index) == index

\* (mutant) the offset taken one too small, as the main reactor's index - 1
SubTokenMinusOne(index) == index + channel_num - 1

\* the registration token of the socket at position index of a Some(list):
\* Token(index + context.channel_num())
SubToken(index) == index + channel_num

\* (mutant) the position in the list reported instead of the token
SubIndexOfPosition(token) == token - channel_num

\* the RouteKey index of a socket event of the sub reactor: token.0
SubIndexOf(token) == token

\* the token under which the sub poll reports an event of source src
SubTokenOf(src) ==
    IF src = WAKER THEN NOTIFY
    ELSE (CHOOSE p \in subReg : p[1] = src)[2]

MapSocks(map) == {map[t] : t \in DOMAIN map}
ChanSocks == UNION {Range(chan[i].list) : i \in 1..Len(chan)}

\* dropping a socket closes it: the OS discards what it had queued
CloseSocks(X) ==
    /\ closed' = closed \cup X
    /\ sockq' = [s \in Socks |-> IF s \in X THEN <<>> ELSE sockq[s]]

\* (mutant) the sockets deregistered but left in read_map
ApplyNoneKeeps(map) == map

\* None: read_map.drain(), every socket deregistered and dropped
ApplyNone(map) == <<>>

\* (mutant) the pool cleared before the list is registered
ApplySomeClearing(map, list) ==
    [t \in {SubToken(i - 1) : i \in 1..Len(list)} |->
        list[CHOOSE i \in 1..Len(list) : SubToken(i - 1) = t]]

\* (mutant) entry(token).or_insert(udp_socket): a token in use keeps its socket
ApplySomeKeepsOld(map, list) ==
    LET new == {SubToken(i - 1) : i \in 1..Len(list)} IN
    [t \in (DOMAIN map) \cup new |->
        IF t \in DOMAIN map THEN map[t]
        ELSE list[CHOOSE i \in 1..Len(list) : SubToken(i - 1) = t]]

\* Some(socket_list): each socket registered under SubToken(position) and
\* inserted in read_map; HashMap::insert replaces the value stored under a key
ApplySome(map, list) ==
    LET new == {SubToken(i - 1) : i \in 1..Len(list)} IN
    [t \in (DOMAIN map) \cup new |->
        IF t \in new THEN list[CHOOSE i \in 1..Len(list) : SubToken(i - 1) = t]
                     ELSE map[t]]

Apply(map, msg) == IF msg.some THEN ApplySome(map, msg.list) ELSE ApplyNone(map)

\* (mutant) a deregister error returned with ?
DeregisterErrPropagates(F) == F # {}

\* if let Err(e) = udp_socket.deregister(poll.registry()) { log::error!(..) }:
\* the error of the sockets F is logged and never leaves the function
DeregisterErrReturns(F) == FALSE

\* (mutant) an if let in place of the while let: one message per wake-up
AfterApplyOnce(events) == IF events = <<>> THEN "poll" ELSE "events"

\* where the sub reactor goes after it applied a message: the while let
\* calls try_recv again
AfterApply(events) == "drain"

\* (mutant) an event of a token that is not in read_map ends the thread
AfterUnknownTokenExit(events) == "exit"

\* where the sub reactor goes after an event whose token is not in read_map:
\* the if let has no else, the for goes on with the next event
AfterUnknownToken(events) == IF events = <<>> THEN "poll" ELSE "events"

\* (mutant) read_map.remove(&token) in place of read_map.get(&token)
MapAfterRemove(map, token) == [t \in (DOMAIN map) \ {token} |-> map[t]]

\* read_map after  if let Some(udp_socket) = read_map.get(&token): a borrow
MapAfterGet(map, token) == map

\* (mutant) the receiver kept alive outside sub_udp_listen0
SubReturnKeepsReceiver(reason, inHand) ==
    /\ subPc' = "exit"
    /\ subExit' = reason
    /\ read_map' = <<>>
    /\ subReg' = {}
    /\ subReady' = {}
    /\ subEvents' = <<>>
    /\ UNCHANGED <<chan, receiverAlive>>
    /\ CloseSocks(MapSocks(read_map) \cup inHand)

\* sub_udp_listen0 returns: poll, read_map and accept_receiver are dropped,
\* and with them every socket they own
SubReturn(reason, inHand) ==
    /\ subPc' = "exit"
    /\ subExit' = reason
    /\ read_map' = <<>>
    /\ subReg' = {}
    /\ subReady' = {}
    /\ subEvents' = <<>>
    /\ chan' = <<>>
    /\ receiverAlive' = FALSE
    /\ CloseSocks(MapSocks(read_map) \cup ChanSocks \cup inHand)

SubNextPc(events) == IF events = <<>> THEN "poll" ELSE "events"

\* poll.poll(&mut events, None) returns Ok, with events of capacity 1024:
\* it blocks until a source is ready
SubPoll ==
    /\ subPc = "poll"
    /\ subReady # {}
    /\ \E batch \in Batches(subReady, SubEventsCap) :
          /\ subEvents' = [i \in 1..Len(batch) |-> SubTokenOf(batch[i])]
          /\ subReady' = subReady \ Range(batch)
          /\ subPc' = "events"
    /\ UNCHANGED <<budget, mainCount, startPc, subExit, subReg, subToken, read_map>>
    /\ UNCHANGED <<stopVars, mainVars, notifyVars, chanVars, sockVars, ghostVars>>

\* poll.poll(&mut events, None)? returns Err: the error leaves sub_udp_listen0
SubPollFail ==
    /\ subPc = "poll"
    /\ SubReturn("error", {})
    /\ UNCHANGED <<budget, mainCount, startPc, subToken, sent, nextSock, pendingNotify, arrivals>>
    /\ UNCHANGED <<stopVars, mainVars, notifyVars, ghostVars>>

\* (mutant) is_add_socket() looked at before is_stop()
SubNotifyUpdateFirst ==
    /\ subPc = "events"
    /\ subEvents # <<>>
    /\ Head(subEvents) = NOTIFY
    /\ IF is_add_socket
       THEN /\ subEvents' = Tail(subEvents)
            /\ subPc' = "drain"
            /\ UNCHANGED <<subExit, subReg, subReady, read_map, chan, receiverAlive,
                           closed, sockq>>
       ELSE IF is_stop
       THEN SubReturn("stop", {})
       ELSE /\ subEvents' = Tail(subEvents)
            /\ subPc' = SubNextPc(Tail(subEvents))
            /\ UNCHANGED <<subExit, subReg, subReady, read_map, chan, receiverAlive,
                           closed, sockq>>
    /\ UNCHANGED <<budget, mainCount, startPc, subToken, sent, nextSock, pendingNotify, arrivals>>
    /\ UNCHANGED <<stopVars, mainVars, notifyVars, ghostVars>>

\* event.token() == NOTIFY: is_stop() is looked at first, then is_add_socket()
SubNotify ==
    /\ subPc = "events"
    /\ subEvents # <<>>
    /\ Head(subEvents) = NOTIFY
    /\ IF is_stop
       THEN SubReturn("stop", {})
       ELSE /\ subEvents' = Tail(subEvents)
            /\ subPc' = IF is_add_socket THEN "drain" ELSE SubNextPc(Tail(subEvents))
            /\ UNCHANGED <<subExit, subReg, subReady, read_map, chan, receiverAlive,
                           closed, sockq>>
    /\ UNCHANGED <<budget, mainCount, startPc, subToken, sent, nextSock, pendingNotify, arrivals>>
    /\ UNCHANGED <<stopVars, mainVars, notifyVars, ghostVars>>

\* one iteration of  while let Ok(option) = accept_receiver.try_recv()
SubTryRecv ==
    /\ subPc = "drain"
    /\ IF chan = <<>>
       THEN /\ subPc' = SubNextPc(subEvents)
            /\ UNCHANGED <<subExit, subReg, subReady, subEvents, read_map, chan,
                           receiverAlive, closed, sockq, applied, deregErrors>>
       ELSE LET msg == Head(chan)
                newMap == Apply(read_map, msg)
                gone == MapSocks(read_map) \ MapSocks(newMap) IN
            \/ \* the message is applied; in the None branch deregister may
               \* fail for the sockets F
               \E F \in SUBSET (IF msg.some THEN {} ELSE gone) :
                  /\ deregErrors' = deregErrors \cup F
                  /\ IF DeregisterErrReturns(F)
                     THEN /\ SubReturn("error", {})
                          /\ UNCHANGED applied
                     ELSE /\ read_map' = newMap
                          /\ subReg' = {p \in subReg : p[1] \notin gone} \cup
                                {<<newMap[t], t>> : t \in {u \in DOMAIN newMap : newMap[u] \in Range(msg.list)}}
                          /\ subReady' = (subReady \ gone) \cup
                                {x \in Range(msg.list) \ gone : sockq[x] # <<>>}
                          /\ CloseSocks(gone \cup (Range(msg.list) \ MapSocks(newMap)))
                          /\ chan' = Tail(chan)
                          /\ applied' = Append(applied, msg)
                          /\ subPc' = AfterApply(subEvents)
                          /\ UNCHANGED <<subExit, subEvents, receiverAlive>>
            \/ \* poll.registry().register(...)? fails for a socket of the list
               /\ msg.some /\ msg.list # <<>>
               /\ SubReturn("register", Range(msg.list))
               /\ UNCHANGED <<applied, deregErrors>>
    /\ UNCHANGED <<budget, mainCount, startPc, subToken, sent, nextSock, pendingNotify, arrivals>>
    /\ UNCHANGED <<stopVars, mainVars, notifyVars, handled, lastDrain>>

\* event of any other token: if let Some(udp_socket) = read_map.get(&token),
\* with the drain loop
SubSocketEvent ==
    /\ subPc = "events"
    /\ subEvents # <<>>
    /\ Head(subEvents) # NOTIFY
    /\ subEvents' = Tail(subEvents)
    /\ LET token == Head(subEvents) IN
       IF token \in DOMAIN read_map
       THEN LET s == read_map[token]
                r == RecvLoop(sockq[s]) IN
            /\ read_map' = MapAfterGet(read_map, token)
            /\ sockq' = [sockq EXCEPT ![s] = r.rest]
            /\ handled' = [handled EXCEPT !["sub"] =
                    @ \o Handle("sub", s, SubIndexOf(token), Len(applied), r.got)]
            /\ IF r.ended
               THEN /\ subPc' = SubNextPc(Tail(subEvents))
                    /\ subToken' = 0
                    /\ lastDrain' = [lastDrain EXCEPT !["sub"] = Len(r.got)]
               ELSE /\ subPc' = "recv"
                    /\ subToken' = token
                    /\ UNCHANGED lastDrain
       ELSE /\ subPc' = AfterUnknownToken(Tail(subEvents))
            /\ UNCHANGED <<subToken, read_map, sockq, handled, lastDrain>>
    /\ UNCHANGED <<budget, mainCount, startPc, subExit, subReg, subReady, closed, arrivals, applied,
                   deregErrors>>
    /\ UNCHANGED <<stopVars, mainVars, notifyVars, chanVars>>

\* an iteration of the drain loop on a socket whose recv_from keeps failing
SubRecvErr ==
    /\ subPc = "recv"
    /\ Head(sockq[read_map[subToken]]).kind = "stuck"
    /\ subPc' = "log"
    /\ UNCHANGED <<budget, mainCount, startPc, subExit, subReg, subReady, subEvents, subToken, read_map>>
    /\ UNCHANGED <<stopVars, mainVars, notifyVars, chanVars, sockVars, ghostVars>>

\* log::error!("{:?}", e); the loop goes on
SubLog ==
    /\ subPc = "log"
    /\ subPc' = "recv"
    /\ UNCHANGED <<budget, mainCount, startPc, subExit, subReg, subReady, subEvents, subToken, read_map>>
    /\ UNCHANGED <<stopVars, mainVars, notifyVars, chanVars, sockVars, ghostVars>>

\* (mutant) the thread ends without worker.stop_all()
SubFinishNoStopAll ==
    /\ subPc = "exit"
    /\ subPc' = "done"
    /\ UNCHANGED <<budget, mainCount, startPc, subExit, subReg, subReady, subEvents, subToken, read_map>>
    /\ UNCHANGED <<stopVars, mainVars, notifyVars, chanVars, sockVars, ghostVars>>

\* the thread closure after sub_udp_listen0 returned: worker.stop_all()
SubFinish ==
    /\ subPc = "exit"
    /\ subPc' = "done"
    /\ StopAll("sub_udp_listen")
    /\ UNCHANGED <<budget, mainCount, startPc, mainPc, mainExit, udps, mainEvents, mainIndex,
                   subExit, subReg, subEvents, subToken, read_map, is_add_socket>>
    /\ UNCHANGED <<chanVars, sockVars, ghostVars>>

\* ------------------------------------------- AcceptSocketSender (producers)
\* the socket lists a producer can build next: the next n sockets it creates
NextLists ==
    {[i \in 1..n |-> ExtraSock(nextSock + i - 1)] :
        n \in {k \in 0..MaxList : nextSock + k - 1 <= MaxExtra}}

\* the first half of a send: the message is put on the channel without blocking,
\* or the send fails (receiver dropped, channel full) and the message is dropped
Send ==
    /\ startPc = "returned_ok"
    /\ sent + arrivals < budget
    /\ pendingNotify < MaxProducers
    /\ sent' = sent + 1
    /\ \E msg \in {NoneMsg} \cup {SomeMsg(l) : l \in NextLists} :
        /\ nextSock' = nextSock + Len(msg.list)
        /\ IF receiverAlive /\ Len(chan) < ChannelCap
           THEN /\ chan' = Append(chan, msg)
                /\ pendingNotify' = pendingNotify + 1
                /\ UNCHANGED <<closed, sockq>>
           ELSE /\ CloseSocks(Range(msg.list))
                /\ UNCHANGED <<chan, pendingNotify>>
    /\ UNCHANGED <<budget, mainCount, startPc, receiverAlive, arrivals>>
    /\ UNCHANGED <<stopVars, mainVars, subVars, notifyVars, ghostVars>>

\* the second half of a send: the notifier's update intent is set and the
\* sub reactor's waker fired
Notify ==
    /\ pendingNotify > 0
    /\ pendingNotify' = pendingNotify - 1
    /\ is_add_socket' = TRUE
    /\ subReady' = IF SubPollAlive THEN subReady \cup {WAKER} ELSE subReady
    /\ UNCHANGED <<budget, mainCount, startPc, subPc, subExit, subReg, subEvents, subToken, read_map,
                   is_stop, chan, receiverAlive, sent, nextSock>>
    /\ UNCHANGED <<stopVars, mainVars, sockVars, ghostVars>>

\* ------------------------------------------------------------ the network
\* sockets that exist and are open
OpenSocks ==
    ({MainSock(i) : i \in 0..(mainCount - 1)} \cup
     {ExtraSock(n) : n \in 1..(nextSock - 1)}) \ closed

\* sockets a reactor reads or may come to read
LiveSocks ==
    {s \in OpenSocks : s \in MainSocks => mainPc \in {"none", "init", "poll", "events", "recv", "log"}}

\* the OS queues a receive result on an open socket; a registered socket
\* becomes ready in its poll
Arrive ==
    /\ sent + arrivals < budget
    /\ arrivals' = arrivals + 1
    /\ \E s \in LiveSocks, item \in {Datagram(arrivals + 1), TransientErr, PersistentErr} :
        /\ sockq' = [sockq EXCEPT ![s] = Append(@, item)]
        /\ mainReady' = IF s \in Range(udps) THEN mainReady \cup {s} ELSE mainReady
        /\ subReady' = IF \E p \in subReg : p[1] = s THEN subReady \cup {s} ELSE subReady
    /\ UNCHANGED <<budget, mainCount, startPc, mainPc, mainExit, udps, mainEvents, mainIndex,
                   subPc, subExit, subReg, subEvents, subToken, read_map, closed>>
    /\ UNCHANGED <<stopVars, notifyVars, chanVars, ghostVars>>

\* ------------------------------------------------------------------- Next
Next ==
    \/ StartMain \/ StartSub \/ ExternalStop
    \/ MainInit \/ MainPoll \/ MainPollFail \/ MainEvent \/ MainRecvErr \/ MainLog \/ MainFinish
    \/ SubPoll \/ SubPollFail \/ SubNotify \/ SubTryRecv \/ SubSocketEvent \/ SubRecvErr \/ SubLog \/ SubFinish
    \/ Send \/ Notify \/ Arrive

Spec == Init /\ [][Next]_vars

\* --------------------------------------------------------------- fairness
\* Every thread that can take a step takes one: the two reactor threads, the
\* thread running udp_listen, and a producer between its try_send and its
\* notify.  A blocked poll stays blocked, and nothing obliges the environment
\* to send, to stop the node, to deliver datagrams or to make a call fail.
MainStep == MainInit \/ MainPoll \/ MainEvent \/ MainRecvErr \/ MainLog \/ MainFinish
SubStep == SubPoll \/ SubNotify \/ SubTryRecv \/ SubSocketEvent \/ SubRecvErr \/ SubLog \/ SubFinish

Fairness ==
    /\ WF_vars(StartMain \/ StartSub)
    /\ WF_vars(MainStep)
    /\ WF_vars(SubStep)
    /\ WF_vars(Notify)

\* runs with one main socket and one more input, under fairness
FairInit == InitWith({1}, MaxInputs + 1)
FairSpec == FairInit /\ [][Next]_vars /\ Fairness

\* runs of a Context with no main socket, next to runs with one
AnyCountInit == InitWith({0, 1}, MaxInputs)
AnyCountSpec == AnyCountInit /\ [][Next]_vars


\* =================================================================== claims
Entries(r) == Range(handled[r])

\* the message applied as number g was a Some(list) applied to an empty pool
OneSomeOnEmpty(g) ==
    /\ g \in 1..Len(applied)
    /\ applied[g].some
    /\ g = 1 \/ ~applied[g - 1].some

\* the lists of the Some messages applied since the last None (or since start)
LastNone == LET N == {i \in 1..Len(applied) : ~applied[i].some}
            IN IF N = {} THEN 0 ELSE CHOOSE i \in N : \A k \in N : k <= i
ListsSinceNone == [i \in 1..(Len(applied) - LastNone) |-> applied[LastNone + i].list]
MaxLenSinceNone ==
    LET L == {Len(ListsSinceNone[i]) : i \in 1..Len(ListsSinceNone)}
    IN IF L = {} THEN 0 ELSE CHOOSE n \in L : \A k \in L : k <= n
RECURSIVE SumLen(_)
SumLen(lists) == IF lists = <<>> THEN 0 ELSE Len(Head(lists)) + SumLen(Tail(lists))

\* the socket of the latest list since the last None that has a position j (0-based)
LatestAt(j) ==
    LET K == {i \in 1..Len(ListsSinceNone) : Len(ListsSinceNone[i]) > j}
        k == CHOOSE i \in K : \A m \in K : m <= i
    IN ListsSinceNone[k][j + 1]

\* C1: index disjointness.  Every datagram the main reactor delivers carries an
\* index in [0, mainCount); every datagram the sub reactor delivers from a pool
\* made by one Some(list) applied to an empty pool carries an index in
\* [mainCount, mainCount + k), k the length of the list; and no two distinct
\* sockets of the main set and that pool deliver under the same index.
C1_IndexDisjointness ==
    /\ \A e \in Entries("main") : e.key.index \in 0..(mainCount - 1)
    /\ \A e \in Entries("sub") :
          OneSomeOnEmpty(e.gen) =>
              e.key.index \in mainCount..(mainCount + Len(applied[e.gen].list) - 1)
    /\ \A e1, e2 \in Entries("main") \cup {e \in Entries("sub") : OneSomeOnEmpty(e.gen)} :
          /\ e1.key.index = e2.key.index
          /\ e1.reactor = "main" \/ e2.reactor = "main" \/ e1.gen = e2.gen
          => e1.sock = e2.sock

\* a datagram was delivered from the second socket of a list applied to an
\* empty pool, next to at least one main socket
C1_Witness ==
    \E e \in Entries("sub") :
        /\ OneSomeOnEmpty(e.gen)
        /\ mainCount >= 1
        /\ Len(applied[e.gen].list) = 2
        /\ e.sock = applied[e.gen].list[2]

SocksApplied(g) == UNION {Range(applied[i].list) : i \in 1..g}

\* C3: cone revert.  Once the sub reactor has applied a None, the pool is empty
\* and every socket registered before is deregistered (and closed), and the sub
\* reactor delivers nothing until a later Some is applied: every datagram it
\* delivers is delivered while the latest applied message is a Some.
C3_ConeRevert ==
    /\ (SubPollAlive /\ applied # <<>> /\ ~applied[Len(applied)].some) =>
          /\ read_map = <<>>
          /\ subReg = {}
          /\ subReady \subseteq {WAKER}
          /\ SocksApplied(Len(applied)) \subseteq closed
    /\ \A e \in Entries("sub") : e.gen >= 1 /\ applied[e.gen].some
    /\ \A e \in Entries("main") : e.key.index < mainCount

\* a None was applied to a pool of two sockets
C3_Witness ==
    /\ SubPollAlive
    /\ Len(applied) = 2
    /\ applied[1].some /\ Len(applied[1].list) = 2
    /\ ~applied[2].some
    /\ read_map = <<>>
    /\ Range(applied[1].list) \subseteq closed

\* C4 as stated: under every interleaving, no update is applied once the stop
\* has been requested.
C4_NoUpdateAfterStop == [][is_stop => applied' = applied]_vars

\* C4 as amended: the stop intent is looked at once, when a notifier event is
\* taken.  A notifier event taken with the stop intent set ends the thread and
\* applies nothing, whatever the update intent and the queue; and once the stop
\* intent is set no drain of the control queue begins, so that only a drain
\* already running when the stop was requested can still apply messages.
C4_StopPrecedence ==
    [][/\ (is_stop /\ subPc = "events" /\ Head(subEvents) = NOTIFY /\ subEvents' # subEvents)
           => (subPc' = "exit" /\ subExit' = "stop" /\ applied' = applied)
       /\ (is_stop /\ subPc # "drain") => (subPc' # "drain" /\ applied' = applied)]_vars

\* the thread ended on a stop with the update intent set and a message, never
\* applied, still in the queue
C4_Witness ==
    /\ subPc \in {"exit", "done"}
    /\ subExit = "stop"
    /\ is_add_socket
    /\ pendingNotify = 0
    /\ sent = 1
    /\ applied = <<>>

\* the notifier of a reactor has a stop signal it has not yet acted on, or the
\* reactor has already returned
MainSignalled ==
    \/ mainPc \in {"exit", "done"}
    \/ WAKER \in mainReady
    \/ NOTIFY \in Range(mainEvents)
SubSignalled ==
    /\ is_stop
    /\ \/ subPc \in {"exit", "done"}
       \/ WAKER \in subReady
       \/ NOTIFY \in Range(subEvents)

DataOf(q) == SelectSeq(q, LAMBDA x : x.kind = "data")

\* the step delivers exactly the datagrams of q, in order, from socket s
Delivers(r, s, q) ==
    /\ Len(handled'[r]) = Len(handled[r]) + Len(DataOf(q))
    /\ \A i \in 1..Len(handled[r]) : handled'[r][i] = handled[r][i]
    /\ \A i \in 1..Len(DataOf(q)) :
          /\ handled'[r][Len(handled[r]) + i].payload = DataOf(q)[i].id
          /\ handled'[r][Len(handled[r]) + i].sock = s

\* C6: drain completeness.  When a reactor has handled the readiness event of a
\* registered socket and gone on to its next event or wait, every datagram that
\* was queued on the socket when the event was taken has been handed to the
\* handler exactly once, in order, and the socket's queue is empty (the loop
\* ended on would-block).
C6_DrainComplete ==
    [][/\ (/\ mainPc = "events" /\ Head(mainEvents) # NOTIFY
           /\ mainEvents' = Tail(mainEvents) /\ mainPc' \in {"poll", "events"})
          => LET s == main_udp_socket[Head(mainEvents)]
             IN sockq'[s] = <<>> /\ Delivers("main", s, sockq[s])
       /\ (/\ subPc = "events" /\ Head(subEvents) # NOTIFY
           /\ subEvents' = Tail(subEvents) /\ subPc' \in {"poll", "events"}
           /\ \E p \in subReg : p[2] = Head(subEvents))
          => LET s == (CHOOSE p \in subReg : p[2] = Head(subEvents))[1]
             IN sockq'[s] = <<>> /\ Delivers("sub", s, sockq[s])]_vars

\* one readiness event of a main socket delivered two datagrams
C6_Witness ==
    /\ lastDrain["main"] = 2
    /\ Len(handled["main"]) = 2
    /\ handled["main"][1].sock = handled["main"][2].sock
    /\ sockq[handled["main"][1].sock] = <<>>

SubStopping == stopped \/ is_stop \/ subExit # "none"

\* C7: no lost update.  Whenever the control queue holds a message, the sub
\* reactor eventually takes every queued message off it and applies it, unless
\* a stop is requested or the sub reactor returns on an error.
C7_NoLostUpdate == (chan # <<>>) ~> (chan = <<>> \/ SubStopping)

\* C8: reactor termination.  Once a stop has been requested, both reactor
\* threads eventually end, having called stop_all.
C8_Termination ==
    stopped ~> (mainPc \in {"none", "done"} /\ subPc \in {"none", "done"})

\* C10: exact index mapping.  A datagram received on the main socket at
\* position i is delivered with RouteKey(false, i, source) and its payload; a
\* datagram received on the socket at position j of a Some(list) applied to an
\* empty pool is delivered with RouteKey(false, mainCount + j, source).
C10_ExactIndex ==
    /\ \A e \in Entries("main") :
          \E i \in 0..(mainCount - 1) :
              /\ e.sock = main_udp_socket[i + 1]
              /\ e.key = RouteKey(FALSE, i, Datagram(e.payload).addr)
    /\ \A e \in Entries("sub") :
          OneSomeOnEmpty(e.gen) =>
              \E j \in 0..(Len(applied[e.gen].list) - 1) :
                  /\ e.sock = applied[e.gen].list[j + 1]
                  /\ e.key = RouteKey(FALSE, mainCount + j, Datagram(e.payload).addr)

\* with two main sockets, a datagram was delivered from socket B of Some([A, B])
\* under index mainCount + 1
C10_Witness ==
    /\ mainCount = 2
    /\ \E e \in Entries("sub") :
          /\ e.gen = 1 /\ applied[1].some
          /\ Len(applied[1].list) = 2
          /\ e.sock = applied[1].list[2]
          /\ e.key.index = 3

\* C11: coalescing.  A notifier event taken with the update intent set and no
\* stop intent starts a drain of the control queue; the drain applies the
\* messages one after the other, each time the oldest one in the queue, goes on
\* as long as it finds a message, and goes back to the events and the wait only
\* when a try_recv found the queue empty.  Nothing is applied outside a drain.
C11_Coalescing ==
    [][/\ (/\ subPc = "events" /\ subEvents # <<>> /\ Head(subEvents) = NOTIFY
           /\ ~is_stop /\ is_add_socket /\ subEvents' # subEvents)
          => (subPc' = "drain" /\ applied' = applied)
       /\ (subPc = "drain" /\ subPc' \in {"poll", "events"})
          => (chan = <<>> /\ applied' = applied)
       /\ applied' # applied
          => /\ subPc = "drain" /\ chan # <<>>
             /\ applied' = Append(applied, Head(chan))
             /\ chan' = Tail(chan)
             /\ subPc' = "drain"]_vars

\* two messages were applied in one wake-up: the second producer has not yet
\* fired the notifier, and the reactor is back at its wait
C11_Witness ==
    /\ sent = 2
    /\ pendingNotify = 1
    /\ Len(applied) = 2
    /\ chan = <<>>
    /\ subPc = "poll"

\* C12 as stated: a deregistration failure during a cone revert is fatal, the
\* sub reactor returns on it (and the thread goes on to stop_all).
C12_DeregisterFatal ==
    [][deregErrors' # deregErrors => (subPc' = "exit" /\ subExit' # "none")]_vars

\* C12 as amended: a deregistration failure during a cone revert is logged and
\* nothing more.  The None is applied in full: the map and the registry are
\* empty, every socket of the pool is dropped, the failed ones included, the
\* reactor goes on with its drain of the control queue, and no stop is triggered.
C12_DeregisterLogged ==
    [][deregErrors' # deregErrors =>
          /\ subPc = "drain" /\ chan # <<>> /\ ~Head(chan).some
          /\ deregErrors' \ deregErrors \subseteq MapSocks(read_map)
          /\ subPc' = "drain" /\ subExit' = "none"
          /\ read_map' = <<>> /\ subReg' = {}
          /\ MapSocks(read_map) \subseteq closed'
          /\ applied' = Append(applied, NoneMsg)
          /\ chan' = Tail(chan)
          /\ stopped' = stopped /\ is_stop' = is_stop]_vars

\* a deregistration failed, and the sub reactor is back at its wait with an
\* empty pool and no stop requested
C12_Witness ==
    /\ deregErrors # {}
    /\ subPc = "poll"
    /\ subExit = "none"
    /\ ~stopped
    /\ read_map = <<>>
    /\ deregErrors \subseteq closed

\* C13: a registration failure aborts.  When register fails for a socket of a
\* Some(list), sub_udp_listen0 returns at once: the message is not applied, the
\* sockets of the list and of the pool are dropped, and what is left in the
\* control queue goes with the receiver.  From then on nothing is applied and
\* the sub reactor delivers nothing; the thread only goes on to stop_all.
C13_RegisterAborts ==
    [][/\ (subExit = "none" /\ subExit' = "register")
          => /\ subPc = "drain" /\ chan # <<>> /\ Head(chan).some
             /\ subPc' = "exit"
             /\ applied' = applied
             /\ read_map' = <<>> /\ subReg' = {} /\ chan' = <<>>
             /\ Range(Head(chan).list) \cup MapSocks(read_map) \cup ChanSocks \subseteq closed'
       /\ subExit = "register"
          => /\ subExit' = "register"
             /\ applied' = applied
             /\ handled'["sub"] = handled["sub"]
             /\ read_map' = <<>> /\ subReg' = {} /\ chan' = <<>>
             /\ subPc' \in {"exit", "done"}
             /\ subPc' = "done" => stopped']_vars

\* a registration failed with a second message already in the queue (its
\* producer has not yet fired the notifier): nothing was applied, and the
\* thread has ended through stop_all
C13_Witness ==
    /\ subExit = "register"
    /\ subPc = "done"
    /\ stopped
    /\ sent = 2
    /\ pendingNotify = 1
    /\ applied = <<>>
    /\ chan = <<>>

\* a reactor has a registered socket with a datagram waiting
HasData(q) == \E k \in 1..Len(q) : q[k].kind = "data"
MainPending == \E i \in 1..Len(udps) : HasData(sockq[udps[i]])
SubPending == \E p \in subReg : HasData(sockq[p[1]])

\* C14: a receive error is never fatal.  Handling a socket event, whatever
\* its receive calls return, does not end the reactor, leaves its registered
\* sockets as they are and triggers no stop; and a datagram waiting on a
\* registered socket of a reactor is eventually delivered (or the socket
\* dropped by an update) unless the reactor returns.
C14_RecvErrorNotFatal ==
    /\ [][/\ (mainPc \in {"events", "recv", "log"} /\ mainEvents # <<>>
              /\ Head(mainEvents) # NOTIFY /\ mainPc' # mainPc)
             => (mainPc' \notin {"exit", "done"} /\ udps' = udps /\ stopped' = stopped)
          /\ (subPc \in {"events", "recv", "log"} /\ subEvents # <<>>
              /\ Head(subEvents) # NOTIFY /\ subPc' # subPc)
             => (subPc' \notin {"exit", "done"} /\ read_map' = read_map
                 /\ subReg' = subReg /\ stopped' = stopped)]_vars
    /\ MainPending ~> (~MainPending \/ mainPc \in {"exit", "done"})
    /\ SubPending ~> (~SubPending \/ subPc \in {"exit", "done"})

\* C15 as stated: read_map changes only when the sub reactor applies a message
\* taken from the control queue; a stop leaves it unchanged.
C15_MapFrameAlways == [][read_map' # read_map => applied' # applied]_vars

\* C15 as amended: while sub_udp_listen0 runs, read_map changes only in a step
\* that applies a message taken from the control queue: a socket event
\* (datagrams, would-block, receive errors), a plain wake and every step of
\* another thread leave it as it is.  The return of sub_udp_listen0 (on a stop,
\* a wait failure or a registration failure) drops the map with its sockets.
\* The socket list of the main reactor does not change between its startup
\* and its return.
C15_MapFrame ==
    [][/\ (read_map' # read_map /\ subExit' = "none")
          => /\ subPc = "drain" /\ chan # <<>>
             /\ applied' = Append(applied, Head(chan))
             /\ read_map' = Apply(read_map, Head(chan))
       /\ (read_map' # read_map /\ subExit' # "none")
          => /\ subPc' = "exit" /\ read_map' = <<>> /\ subReg' = {}
             /\ MapSocks(read_map) \subseteq closed'
       /\ (mainPc \in {"poll", "events", "recv", "log"} /\ mainPc' # "exit")
          => udps' = udps]_vars

\* the sub reactor delivered a datagram from a pool socket and is back at its
\* wait, the pool as the one applied message left it
C15_Witness ==
    /\ subPc = "poll"
    /\ Len(applied) = 1
    /\ applied[1].some
    /\ Len(handled["sub"]) = 1
    /\ read_map = Apply(<<>>, applied[1])
    /\ handled["sub"][1].sock \in MapSocks(read_map)

\* C16: send after exit.  Once sub_udp_listen0 has returned, the receiver of
\* the control channel is gone and the channel holds nothing; a send then puts
\* nothing on the channel and leaves no producer with a notify to make (it
\* fails, and the sockets of its list are dropped with the message), and no
\* message is applied any more.
C16_SendAfterExit ==
    [][/\ subPc' \in {"exit", "done"} => (~receiverAlive' /\ chan' = <<>>)
       /\ subPc \in {"exit", "done"}
          => /\ applied' = applied
             /\ pendingNotify' <= pendingNotify
             /\ sent' # sent
                => {ExtraSock(n) : n \in nextSock..(nextSock' - 1)} \subseteq closed']_vars

\* a Some(list) was sent after the sub reactor had ended: it was never queued,
\* never notified, never applied, and its socket is closed
C16_Witness ==
    /\ subPc = "done"
    /\ sent = 1
    /\ nextSock = 2
    /\ pendingNotify = 0
    /\ ~is_add_socket
    /\ chan = <<>>
    /\ applied = <<>>
    /\ ExtraSock(1) \in closed

\* the notifier token is the token of no extra socket: it is no key of
\* read_map and no token of the registry, and a ready source is reported under
\* it only if it is the waker
TokenZeroIsNotifier ==
    /\ NOTIFY \notin DOMAIN read_map
    /\ \A p \in subReg : p[2] # NOTIFY
    /\ \A src \in subReady : (SubTokenOf(src) = NOTIFY) <=> (src = WAKER)

\* C17 as stated: for every mainCount >= 0 and every Some(list), token 0 is
\* never the registration token of an extra socket.
C17_AnyCount == TokenZeroIsNotifier

\* C17 as amended: with at least one main socket, token 0 is never the
\* registration token of an extra socket, and every delivery of the sub reactor
\* carries a token other than 0.
C17_NotifierTokenReserved ==
    mainCount >= 1 =>
        /\ TokenZeroIsNotifier
        /\ \A e \in Entries("sub") : e.key.index # NOTIFY

\* with one main socket, the first socket of a Some(list) delivered a datagram
\* under token 1, the token next to the notifier's
C17_Witness ==
    /\ mainCount = 1
    /\ \E e \in Entries("sub") :
          /\ e.key.index = 1
          /\ e.sock = applied[e.gen].list[1]

\* C18: the sub reactor delivers only from the map.  Every datagram it hands to
\* the handler was received, while handling a socket event, from the socket
\* that read_map holds under the event's token at that moment; an event whose
\* token is not in read_map is passed over: nothing is delivered, no socket is
\* read, and the reactor goes on with the next event or its wait.
C18_OnlyFromMap ==
    [][/\ handled'["sub"] # handled["sub"]
          => /\ subPc = "events" /\ subEvents # <<>>
             /\ Head(subEvents) \in DOMAIN read_map
             /\ Len(handled'["sub"]) > Len(handled["sub"])
             /\ \A i \in 1..Len(handled'["sub"]) :
                   IF i <= Len(handled["sub"])
                   THEN handled'["sub"][i] = handled["sub"][i]
                   ELSE /\ handled'["sub"][i].sock = read_map[Head(subEvents)]
                        /\ handled'["sub"][i].key.index = Head(subEvents)
       /\ (/\ subPc = "events" /\ subEvents # <<>> /\ Head(subEvents) # NOTIFY
           /\ Head(subEvents) \notin DOMAIN read_map /\ subEvents' # subEvents)
          => /\ subEvents' = Tail(subEvents)
             /\ subPc' = (IF Tail(subEvents) = <<>> THEN "poll" ELSE "events")
             /\ subExit' = subExit
             /\ UNCHANGED <<read_map, subReg, subReady, sockq, closed, handled, applied,
                            chan, stopped, is_stop>>]_vars

\* a None emptied the pool while the readiness event of a pool socket was
\* waiting in the same batch: the event in hand has a token that is not in the map
C18_Witness ==
    /\ subPc = "events"
    /\ subEvents # <<>>
    /\ Head(subEvents) = SubToken(0)
    /\ read_map = <<>>
    /\ Len(applied) = 2
    /\ applied[1].some /\ ~applied[2].some

\* the socket at position j (from 1) of the list numbered i since the last
\* None has been replaced: a later list reaches position j
Replaced(i, j) == \E k \in (i + 1)..Len(ListsSinceNone) : Len(ListsSinceNone[k]) >= j

\* C19: tokens of the pool.  Every token of read_map lies in
\* [mainCount, mainCount + L), L the length of the longest Some(list) applied
\* since the last None; the poll registry holds one socket per token, the one
\* read_map holds; and a socket of an applied list is in the map, under
\* mainCount + its position, unless a later list put its own socket under that
\* token, in which case it is out of the map and closed.
C19_TokenRange ==
    SubPollAlive =>
        /\ \A t \in DOMAIN read_map :
              /\ mainCount <= t /\ t < mainCount + MaxLenSinceNone
              /\ <<read_map[t], t>> \in subReg
        /\ \A p, q \in subReg : p[2] = q[2] => p[1] = q[1]
        /\ \A i \in 1..Len(ListsSinceNone) : \A j \in 1..Len(ListsSinceNone[i]) :
              LET s == ListsSinceNone[i][j] IN
              IF Replaced(i, j)
              THEN s \notin MapSocks(read_map) /\ s \in closed
              ELSE (mainCount + j - 1) \in DOMAIN read_map /\ read_map[mainCount + j - 1] = s

\* Some([a]) then Some([b, c]) were applied: b took the token of a, which is
\* closed, and the pool spans two tokens
C19_Witness ==
    /\ SubPollAlive
    /\ Len(applied) = 2
    /\ applied[1].some /\ Len(applied[1].list) = 1
    /\ applied[2].some /\ Len(applied[2].list) = 2
    /\ DOMAIN read_map = {mainCount, mainCount + 1}
    /\ read_map[mainCount] = applied[2].list[1]
    /\ applied[1].list[1] \in closed

====
